---------------------------- MODULE Spec2Model ----------------------------
(***************************************************************************)
(* A model of pypsu: the PSU archive (psu.py), its entries (entry.py) and  *)
(* the 32-byte entry header (header.py).                                   *)
(*                                                                         *)
(* Bytes objects are sequences over 0..255, Python strings are sequences   *)
(* of code points, a datetime is a record of its seven fields.  An         *)
(* operation that can raise returns a record whose status names the        *)
(* exception.                                                              *)
(***************************************************************************)
EXTENDS Integers, Sequences, FiniteSets, TLC

VARIABLES
    entries,    \* PSU.entries: the caller's archive, a sequence of entries
    disk,       \* the bytes of the file at PSU.filepath
    ret,        \* the outcome of the last call: what it returned or raised
    ops,        \* the number of calls made so far
    n,          \* codec specification: a file content length
    hdr,        \* codec specification: a header instance
    wire        \* codec specification: the last buffer the codec produced

vars == <<entries, disk, ret, ops, n, hdr, wire>>

---------------------------------------------------------------------------
(* Program constants.                                                      *)

DIRECTORY == 33831      \* Type.DIRECTORY = 0x8427
FILE == 33943           \* Type.FILE = 0x8497
HEADER_SIZE == 32       \* Header.SIZE = 0x20
PADDING_SIZE == 32      \* Entry.PADDING_SIZE
NAME_SIZE == 448        \* Entry.NAME_SIZE
PAGE_SIZE == 1024       \* File.PAGE_SIZE

---------------------------------------------------------------------------
(* Python built-ins used by the code.                                      *)

Min(a, b) == IF a < b THEN a ELSE b

\* b'\x00' * k
Zeros(k) == [i \in 1..k |-> 0]

\* data[a:b] for 0 <= a <= b: a slice is cut at the end of the data
Slice(data, a, b) ==
    IF a >= Min(b, Len(data)) THEN <<>> ELSE SubSeq(data, a + 1, Min(b, Len(data)))

\* data[a:]
SliceFrom(data, a) == Slice(data, a, Len(data))

\* bytes.ljust(width, b'\x00'): pads on the right, never truncates
LJust(data, width) ==
    IF Len(data) >= width THEN data ELSE data \o Zeros(width - Len(data))

\* str.rstrip('\x00')
RStripNul(s) ==
    LET keep == {i \in 1..Len(s) : s[i] # 0}
        last == IF keep = {} THEN 0 ELSE CHOOSE i \in keep : \A j \in keep : j <= i
    IN  SubSeq(s, 1, last)

\* str.encode('UTF-8') of one code point below U+0800
Utf8Char(c) ==
    IF c < 128 THEN <<c>> ELSE <<192 + (c \div 64), 128 + (c % 64)>>

\* str.encode('UTF-8'), the string taken in halves
RECURSIVE Utf8Encode(_)
Utf8Encode(s) ==
    IF s = <<>> THEN <<>>
    ELSE IF Len(s) = 1 THEN Utf8Char(s[1])
    ELSE LET mid == Len(s) \div 2
         IN  Utf8Encode(SubSeq(s, 1, mid)) \o Utf8Encode(SubSeq(s, mid + 1, Len(s)))

IsLead2(b) == b >= 194 /\ b < 224
IsContinuation(b) == b >= 128 /\ b < 192

\* bytes.decode('UTF-8') of data[lo..hi] (1 and 2 byte sequences; longer
\* ones do not occur in the buffers of this model), the range taken in
\* halves that never part a lead byte from the byte after it.
\* UnicodeDecodeError for a stray continuation byte, a lead byte without
\* its continuation, or a byte that starts no sequence.
RECURSIVE Utf8DecodeRange(_, _, _)
Utf8DecodeRange(data, lo, hi) ==
    IF lo > hi THEN [status |-> "ok", value |-> <<>>]
    ELSE IF lo = hi
    THEN IF data[lo] < 128 THEN [status |-> "ok", value |-> <<data[lo]>>]
         ELSE [status |-> "UnicodeDecodeError", value |-> <<>>]
    ELSE IF hi = lo + 1 /\ IsLead2(data[lo])
    THEN IF IsContinuation(data[hi])
         THEN [status |-> "ok",
               value |-> <<(data[lo] - 192) * 64 + (data[hi] - 128)>>]
         ELSE [status |-> "UnicodeDecodeError", value |-> <<>>]
    ELSE LET mid == (lo + hi) \div 2
             cut == IF IsLead2(data[mid]) THEN mid - 1 ELSE mid
             left == Utf8DecodeRange(data, lo, cut)
             right == Utf8DecodeRange(data, cut + 1, hi)
         IN  IF left.status # "ok" THEN left
             ELSE IF right.status # "ok" THEN right
             ELSE [status |-> "ok", value |-> left.value \o right.value]

Utf8Decode(data) == Utf8DecodeRange(data, 1, Len(data))

\* struct: an unsigned little-endian integer of w bytes
PackLE(v, w) == [i \in 1..w |-> (v \div (256 ^ (i - 1))) % 256]

RECURSIVE UnpackLE(_)
UnpackLE(data) ==
    IF data = <<>> THEN 0 ELSE Head(data) + 256 * UnpackLE(Tail(data))

\* struct.pack raises struct.error for a value outside the field's width
\* (v < 256^w, written so that no number past 2^31 - 1 is formed)
Fits(v, w) == v >= 0 /\ v \div (256 ^ (w - 1)) < 256

\* datetime(year, month, day, hour, minute, second): ValueError outside these
IsLeap(y) == (y % 4 = 0 /\ y % 100 # 0) \/ y % 400 = 0

DaysInMonth(y, m) ==
    IF m = 2 THEN (IF IsLeap(y) THEN 29 ELSE 28)
    ELSE IF m \in {4, 6, 9, 11} THEN 30 ELSE 31

ValidDate(y, mo, d, h, mi, s) ==
    /\ y >= 1 /\ y <= 9999
    /\ mo >= 1 /\ mo <= 12
    /\ d >= 1 /\ d <= DaysInMonth(y, mo)
    /\ h >= 0 /\ h <= 23
    /\ mi >= 0 /\ mi <= 59
    /\ s >= 0 /\ s <= 59

DateTime(y, mo, d, h, mi, s, us) ==
    [year |-> y, month |-> mo, day |-> d, hour |-> h, minute |-> mi,
     second |-> s, microsecond |-> us]

---------------------------------------------------------------------------
(* header.py                                                               *)

\* Header.__init__
Header(type, size, created, modified, sectorAddress, unk1, unk2, unk3) ==
    [type |-> type, size |-> size, created |-> created, modified |-> modified,
     sectorAddress |-> sectorAddress, unk1 |-> unk1, unk2 |-> unk2,
     unk3 |-> unk3]

\* The 8 bytes '6BH' of one timestamp: a zero byte, second, minute, hour,
\* day, month, and the 2-byte year.
PackTimestamp(t) ==
    <<0, t.second, t.minute, t.hour, t.day, t.month>> \o PackLE(t.year, 2)

\* Whether struct.pack accepts every field of the header ('<HHI6BHHHI6BH')
HeaderFits(h) ==
    /\ Fits(h.type, 2) /\ Fits(h.unk1, 2) /\ Fits(h.size, 4)
    /\ Fits(h.sectorAddress, 2) /\ Fits(h.unk2, 2) /\ Fits(h.unk3, 4)
    /\ \A t \in {h.created, h.modified} :
          /\ Fits(t.second, 1) /\ Fits(t.minute, 1) /\ Fits(t.hour, 1)
          /\ Fits(t.day, 1) /\ Fits(t.month, 1) /\ Fits(t.year, 2)

\* Header.serialize
HeaderSerialize(h) ==
    IF ~HeaderFits(h) THEN [status |-> "struct.error", data |-> <<>>]
    ELSE [status |-> "ok",
          data |-> PackLE(h.type, 2) \o PackLE(h.unk1, 2) \o PackLE(h.size, 4)
                   \o PackTimestamp(h.created)
                   \o PackLE(h.sectorAddress, 2) \o PackLE(h.unk2, 2)
                   \o PackLE(h.unk3, 4)
                   \o PackTimestamp(h.modified)]

\* struct.unpack(Header.FORMAT, data): the 20 values, numbered from 0
UnpackHeader(data) ==
    [k \in 0..19 |->
        CASE k = 0 -> UnpackLE(SubSeq(data, 1, 2))
          [] k = 1 -> UnpackLE(SubSeq(data, 3, 4))
          [] k = 2 -> UnpackLE(SubSeq(data, 5, 8))
          [] k \in 3..8 -> data[k + 6]
          [] k = 9 -> UnpackLE(SubSeq(data, 15, 16))
          [] k = 10 -> UnpackLE(SubSeq(data, 17, 18))
          [] k = 11 -> UnpackLE(SubSeq(data, 19, 20))
          [] k = 12 -> UnpackLE(SubSeq(data, 21, 24))
          [] k \in 13..18 -> data[k + 12]
          [] k = 19 -> UnpackLE(SubSeq(data, 31, 32))]

\* Header.deserialize gone wrong: unk1 and unk2 read from each other's
\* place (values 11 and 1 of the unpacked tuple exchanged)
HeaderDeserializeSwapped(data) ==
    IF Len(data) # HEADER_SIZE THEN [status |-> "struct.error"]
    ELSE LET header == UnpackHeader(data) IN
         IF \/ ~ValidDate(header[9], header[8], header[7],
                          header[6], header[5], header[4])
            \/ ~ValidDate(header[19], header[18], header[17],
                          header[16], header[15], header[14])
         THEN [status |-> "ValueError"]
         ELSE [status |-> "ok",
               header |-> Header(
                   header[0],
                   header[2],
                   DateTime(header[9], header[8], header[7],
                            header[6], header[5], header[4], 0),
                   DateTime(header[19], header[18], header[17],
                            header[16], header[15], header[14], 0),
                   header[10],
                   header[11],
                   header[1],
                   header[12])]

\* Header.deserialize: struct.error unless exactly 32 bytes are given,
\* ValueError from datetime() for fields that are no calendar date
HeaderDeserialize(data) ==
    IF Len(data) # HEADER_SIZE THEN [status |-> "struct.error"]
    ELSE LET header == UnpackHeader(data) IN
         IF \/ ~ValidDate(header[9], header[8], header[7],
                          header[6], header[5], header[4])
            \/ ~ValidDate(header[19], header[18], header[17],
                          header[16], header[15], header[14])
         THEN [status |-> "ValueError"]
         ELSE [status |-> "ok",
               header |-> Header(
                   header[0],
                   header[2],
                   DateTime(header[9], header[8], header[7],
                            header[6], header[5], header[4], 0),
                   DateTime(header[19], header[18], header[17],
                            header[16], header[15], header[14], 0),
                   header[10],
                   header[1],
                   header[11],
                   header[12])]

---------------------------------------------------------------------------
(* entry.py                                                                *)

\* The value of an attribute that was never assigned (Directory.content)
NoAttr == <<-1>>

\* File.getContentPaddingSize gone wrong: a whole page of padding after
\* content that already ends on a page boundary
getContentPaddingSizeFullPage(contentSize) ==
    PAGE_SIZE - (contentSize % PAGE_SIZE)

\* File.getContentPaddingSize
getContentPaddingSize(contentSize) ==
    LET remaining == PAGE_SIZE - (contentSize % PAGE_SIZE)
    IN  IF remaining = PAGE_SIZE THEN 0 ELSE remaining

\* Directory.__init__ with a given header
DirectoryWith(name, header, padding) ==
    [cls |-> "Directory", name |-> name, header |-> header,
     padding |-> padding, content |-> NoAttr]

\* File.__init__ with a given header
FileWith(name, content, header, padding) ==
    [cls |-> "File", name |-> name, header |-> header,
     padding |-> padding, content |-> content]

\* Entry.serialize: header, padding, name left-justified in 448 bytes
EntrySerialize(e) ==
    LET h == HeaderSerialize(e.header) IN
    IF h.status # "ok" THEN [status |-> h.status, data |-> <<>>, entry |-> e]
    ELSE [status |-> "ok",
          data |-> h.data \o e.padding \o LJust(Utf8Encode(e.name), NAME_SIZE),
          entry |-> e]

\* File.serialize gone wrong: the content is not padded to the page
FileSerializeUnpadded(e) ==
    LET self == [e EXCEPT !.header.size = Len(e.content)]
        base == EntrySerialize(self)
    IN  IF base.status # "ok" THEN base
        ELSE [status |-> "ok",
              data |-> IF self.header.size > 0
                       THEN base.data \o self.content
                       ELSE base.data,
              entry |-> self]

\* File.serialize: sets header.size to the content length, then emits the
\* base record, the content and the page padding (nothing for no content)
FileSerialize(e) ==
    LET self == [e EXCEPT !.header.size = Len(e.content)]
        base == EntrySerialize(self)
    IN  IF base.status # "ok" THEN base
        ELSE [status |-> "ok",
              data |-> IF self.header.size > 0
                       THEN base.data \o self.content
                            \o Zeros(getContentPaddingSize(self.header.size))
                       ELSE base.data,
              entry |-> self]

\* entry.serialize(): File overrides it, Directory inherits Entry's.
\* Returns the bytes and the entry as the call leaves it.
Serialize(e) ==
    IF e.cls = "File" THEN FileSerialize(e) ELSE EntrySerialize(e)

\* File.deserialize gone wrong: the page padding is not counted
FileDeserializeNoPad(header, padding, name, data) ==
    LET content == Slice(data, 0, header.size)
        offset == header.size
    IN  [entry |-> FileWith(name, content, header, padding), size |-> offset]

\* File.deserialize
FileDeserialize(header, padding, name, data) ==
    LET content == Slice(data, 0, header.size)
        offset == header.size + getContentPaddingSize(header.size)
    IN  [entry |-> FileWith(name, content, header, padding), size |-> offset]

\* Directory.deserialize
DirectoryDeserialize(header, padding, name, data) ==
    [entry |-> DirectoryWith(name, header, padding), size |-> 0]

\* Entry.__getPadding
getPadding(data) == Slice(data, 0, PADDING_SIZE)

\* Entry.__getName gone wrong: the NUL fill is not stripped
getNameUnstripped(data) ==
    Utf8Decode(Slice(data, 0, NAME_SIZE))

\* Entry.__getName
getName(data) ==
    LET s == Utf8Decode(Slice(data, 0, NAME_SIZE))
    IN  IF s.status # "ok" THEN s
        ELSE [status |-> "ok", value |-> RStripNul(s.value)]

\* Entry.deserialize: the entry and the number of bytes it took, or the
\* exception raised
EntryDeserialize(data) ==
    LET h == HeaderDeserialize(Slice(data, 0, HEADER_SIZE)) IN
    IF h.status # "ok" THEN [status |-> h.status]
    ELSE
    LET header == h.header
        offset1 == HEADER_SIZE
        padding == getPadding(Slice(data, offset1, offset1 + PADDING_SIZE))
        offset2 == offset1 + PADDING_SIZE
        nm == getName(Slice(data, offset2, offset2 + NAME_SIZE))
        offset == offset2 + NAME_SIZE
    IN  IF nm.status # "ok" THEN [status |-> nm.status]
        ELSE IF header.type = FILE
        THEN LET r == FileDeserialize(header, padding, nm.value,
                                      SliceFrom(data, offset))
             IN  [status |-> "ok", entry |-> r.entry, size |-> offset + r.size]
        ELSE IF header.type = DIRECTORY
        THEN LET r == DirectoryDeserialize(header, padding, nm.value,
                                           SliceFrom(data, offset))
             IN  [status |-> "ok", entry |-> r.entry, size |-> offset + r.size]
        ELSE [status |-> "UnknownEntryType", type |-> header.type,
              entryName |-> nm.value]

---------------------------------------------------------------------------
(* psu.py: the operations on PSU.entries, as functions of the entry list.  *)

\* The default of a type argument (type = None)
None == -1

\* Header's default created and modified: datetime.now(), evaluated once
\* when header.py is imported, sub-second part included
Now == DateTime(2024, 2, 29, 23, 59, 58, 250000)

\* Header(type, size): the other arguments at their defaults
NewHeader(type, size) == Header(type, size, Now, Now, 0, 0, 0, 0)

\* Directory(name, fileCount)
Directory(name, fileCount) ==
    DirectoryWith(name, NewHeader(DIRECTORY, fileCount), Zeros(PADDING_SIZE))

\* File(name, content)
File(name, content) ==
    FileWith(name, content, NewHeader(FILE, Len(content)), Zeros(PADDING_SIZE))

\* The names "." and ".." as code points
Dot == <<46>>
DotDot == <<46, 46>>

\* PSU.__index gone wrong: the last matching position instead of the first
indexLast(es, entryName, type) ==
    LET hits == {i \in 1..Len(es) :
                    /\ es[i].name = entryName
                    /\ (type = None \/ es[i].header.type = type)}
    IN  IF hits = {} THEN [status |-> "EntryNotFound", entryName |-> entryName]
        ELSE [status |-> "ok",
              value |-> CHOOSE i \in hits : \A j \in hits : j <= i]

\* PSU.__index: the first position (from 1) whose entry has the name and,
\* when a type is given, the type
index(es, entryName, type) ==
    LET hits == {i \in 1..Len(es) :
                    /\ es[i].name = entryName
                    /\ (type = None \/ es[i].header.type = type)}
    IN  IF hits = {} THEN [status |-> "EntryNotFound", entryName |-> entryName]
        ELSE [status |-> "ok",
              value |-> CHOOSE i \in hits : \A j \in hits : i <= j]

\* PSU.get
get(es, entryName, type) ==
    LET i == index(es, entryName, type)
    IN  IF i.status # "ok" THEN i
        ELSE [status |-> "ok", value |-> es[i.value], at |-> i.value]

\* PSU.has
has(es, entryName) == get(es, entryName, None).status = "ok"

\* PSU.add
add(es, entry) == Append(es, entry)

\* PSU.write: data is bytes or str; the entries after the call and the
\* position of the entry returned
write(es, entryName, data) ==
    LET bytes == IF data.type = "str" THEN Utf8Encode(data.value) ELSE data.value
    IN  IF has(es, entryName)
        THEN LET at == get(es, entryName, None).at
             IN  [entries |-> [es EXCEPT ![at].content = bytes,
                                         ![at].header.size = Len(bytes)],
                  at |-> at]
        ELSE [entries |-> add(es, File(entryName, bytes)),
              at |-> Len(es) + 1]

\* PSU.read gone wrong: the lookup is not restricted to files
readAnyType(es, entryName) ==
    LET e == get(es, entryName, None)
    IN  IF e.status # "ok" THEN e
        ELSE [status |-> "ok", value |-> e.value.content]

\* PSU.read
read(es, entryName) ==
    LET e == get(es, entryName, FILE)
    IN  IF e.status # "ok" THEN e
        ELSE [status |-> "ok", value |-> e.value.content]

\* PSU.delete gone wrong: every entry of the name is removed
deleteAll(es, entryName) ==
    LET i == index(es, entryName, None)
    IN  IF i.status # "ok" THEN [status |-> i.status, entryName |-> i.entryName,
                                 entries |-> es]
        ELSE [status |-> "ok",
              entries |-> SelectSeq(es, LAMBDA e : e.name # entryName)]

\* PSU.delete
delete(es, entryName) ==
    LET i == index(es, entryName, None)
    IN  IF i.status # "ok" THEN [status |-> i.status, entryName |-> i.entryName,
                                 entries |-> es]
        ELSE [status |-> "ok",
              entries |-> SubSeq(es, 1, i.value - 1)
                          \o SubSeq(es, i.value + 1, Len(es))]

\* The size assignment of save() gone wrong: the entry count, itself included
resolveSizeCountsSelf(es, entry) ==
    IF entry.header.type = DIRECTORY
    THEN IF entry.name = Dot \/ entry.name = DotDot
         THEN [entry EXCEPT !.header.size = 0]
         ELSE [entry EXCEPT !.header.size = Len(es)]
    ELSE entry

\* The directory size save() assigns before it serializes an entry
resolveSize(es, entry) ==
    IF entry.header.type = DIRECTORY
    THEN IF entry.name = Dot \/ entry.name = DotDot
         THEN [entry EXCEPT !.header.size = 0]
         ELSE [entry EXCEPT !.header.size = Len(es) - 1]
    ELSE entry

\* The loop of PSU.save gone wrong: each entry is serialized before its
\* directory size is assigned
RECURSIVE saveLoopStale(_, _, _)
saveLoopStale(es, i, data) ==
    IF i > Len(es) THEN [status |-> "ok", entries |-> es, data |-> data]
    ELSE LET s == Serialize(es[i])
             after == [es EXCEPT ![i] = resolveSize(es, s.entry)]
         IN  IF s.status # "ok"
             THEN [status |-> s.status, entries |-> after, data |-> data]
             ELSE saveLoopStale(after, i + 1, data \o s.data)

\* The loop of PSU.save from entry i on: the entries as the loop leaves
\* them and the bytes collected, or the exception of a serialize call
RECURSIVE saveLoop(_, _, _)
saveLoop(es, i, data) ==
    IF i > Len(es) THEN [status |-> "ok", entries |-> es, data |-> data]
    ELSE LET s == Serialize(resolveSize(es, es[i]))
             after == [es EXCEPT ![i] = s.entry]
         IN  IF s.status # "ok"
             THEN [status |-> s.status, entries |-> after, data |-> data]
             ELSE saveLoop(after, i + 1, data \o s.data)

\* PSU.save
save(es) == saveLoop(es, 1, <<>>)

\* The loop of PSU.__parse
RECURSIVE parseLoop(_, _, _)
parseLoop(data, offset, acc) ==
    IF ~(offset < Len(data))
    THEN [status |-> "ok", entries |-> acc, offset |-> offset]
    ELSE LET r == EntryDeserialize(SliceFrom(data, offset))
         IN  IF r.status # "ok" THEN r
             ELSE parseLoop(data, offset + r.size, Append(acc, r.entry))

\* PSU.__parse
parse(data) == parseLoop(data, 0, <<>>)

\* The loop of PSU.__parse again, keeping the value of offset at each test
\* of the loop condition
RECURSIVE parseOffsets(_, _, _)
parseOffsets(data, offset, acc) ==
    IF ~(offset < Len(data))
    THEN [status |-> "ok", offsets |-> Append(acc, offset)]
    ELSE LET r == EntryDeserialize(SliceFrom(data, offset))
         IN  IF r.status # "ok"
             THEN [status |-> r.status, offsets |-> Append(acc, offset)]
             ELSE parseOffsets(data, offset + r.size, Append(acc, offset))

\* os.path.basename: what follows the last "/"
basename(path) ==
    LET slashes == {i \in 1..Len(path) : path[i] = 47}
        last == IF slashes = {} THEN 0
                ELSE CHOOSE i \in slashes : \A j \in slashes : j <= i
    IN  SubSeq(path, last + 1, Len(path))

\* os.path.splitext(p)[0]: p without its extension; the extension starts
\* at the last "." that has a character other than "." before it
splitextRoot(p) ==
    LET dots == {i \in 1..Len(p) :
                    p[i] = 46 /\ \E j \in 1..(i - 1) : p[j] # 46}
        last == IF dots = {} THEN Len(p) + 1
                ELSE CHOOSE i \in dots : \A j \in dots : j <= i
    IN  SubSeq(p, 1, last - 1)

\* PSU.create
create(filepath) ==
    LET base == splitextRoot(basename(filepath))
        psu0 == <<>>
        psu1 == add(psu0, Directory(base, 0))
        psu2 == add(psu1, Directory(Dot, 0))
    IN  add(psu2, Directory(DotDot, 0))

---------------------------------------------------------------------------
(* Bounds and the inputs the calls are made with.                          *)

MaxOps == 3         \* calls made on the archive, per behaviour
MaxCorrupt == 2     \* bytes of the file another program overwrites

\* "mygame", "icon.sys" and a name that ends in a NUL character, "sv\0"
MyGame == <<109, 121, 103, 97, 109, 101>>
IconSys == <<105, 99, 111, 110, 46, 115, 121, 115>>
NulName == <<115, 118, 0>>

\* Entry names write, read and delete are called with
Names == {MyGame, IconSys}

\* File paths create() is called with: "mygame" and "sv/mygame.psu"
FilePaths == {MyGame, <<115, 118, 47>> \o MyGame \o <<46, 112, 115, 117>>}

\* Data write() is called with: bytes (none, ten zero bytes) and a str
\* with a two-byte character
Datas == {[type |-> "bytes", value |-> <<>>],
          [type |-> "bytes", value |-> Zeros(10)],
          [type |-> "str", value |-> <<233, 49>>]}

\* Entries add() is called with
AddInputs == {Directory(NulName, 5), File(MyGame, <<7, 0>>)}

\* The file of a PSU that does not exist on disk
NoFile == <<-1>>

\* One record of a file written by another program: a header with the given
\* type, size and timestamp, padding bytes, the name, and a payload
ForeignEntry(type, size, t, pad, name, payload) ==
    HeaderSerialize(Header(type, size, t, t, 3, 1, 65535, 2147483647)).data
    \o pad \o LJust(name, NAME_SIZE) \o payload

ForeignDate == DateTime(2001, 12, 31, 0, 0, 0, 0)
ForeignPad == [i \in 1..PADDING_SIZE |-> i]

\* A save written elsewhere: directories "mygame" and "." of sizes 7 and 9,
\* and the 2-byte file "icon.sys"
ForeignFile ==
    ForeignEntry(DIRECTORY, 7, ForeignDate, ForeignPad, MyGame, <<>>)
    \o ForeignEntry(DIRECTORY, 9, ForeignDate, ForeignPad, Dot, <<>>)
    \o ForeignEntry(FILE, 2, ForeignDate, ForeignPad, IconSys,
                    <<1, 0>> \o Zeros(1022))

---------------------------------------------------------------------------
(* The archive as a state machine: one caller, one PSU, one file.          *)

\* ret: the last call (op), the call made before it (after), its argument,
\* "ok" or the exception raised (status), and the value returned or the
\* exception's arguments (value)
Called(op, arg, status, value) ==
    [after |-> ret.op, op |-> op, arg |-> arg, status |-> status, value |-> value]

Constructed(op, arg) ==
    [after |-> "none", op |-> op, arg |-> arg, status |-> "ok", value |-> <<>>]

\* The codec variables while the archive is the subject
CodecIdle == n = 0 /\ hdr = NewHeader(FILE, 0) /\ wire = <<>>

\* PSU(filepath) beside a file written elsewhere, or PSU.create(filepath)
\* with no file yet
Init ==
    /\ \/ entries = <<>> /\ disk = ForeignFile /\ ret = Constructed("PSU", <<>>)
       \/ \E fp \in FilePaths :
             entries = create(fp) /\ disk = NoFile /\ ret = Constructed("create", fp)
    /\ ops = 0
    /\ CodecIdle

\* psu.add(entry)
Add(entry) ==
    /\ ops < MaxOps
    /\ entries' = add(entries, entry)
    /\ ret' = Called("add", entry.name, "ok", <<>>)
    /\ ops' = ops + 1
    /\ UNCHANGED <<disk, n, hdr, wire>>

\* psu.write(entryName, data); value is the position of the entry returned
Write(entryName, data) ==
    /\ ops < MaxOps
    /\ LET w == write(entries, entryName, data)
       IN  /\ entries' = w.entries
           /\ ret' = Called("write", entryName, "ok", w.at)
    /\ ops' = ops + 1
    /\ UNCHANGED <<disk, n, hdr, wire>>

\* psu.read(entryName)
Read(entryName) ==
    /\ ops < MaxOps
    /\ LET r == read(entries, entryName)
       IN  ret' = Called("read", entryName, r.status,
                         IF r.status = "ok" THEN r.value ELSE r.entryName)
    /\ ops' = ops + 1
    /\ UNCHANGED <<entries, disk, n, hdr, wire>>

\* psu.delete(entryName)
Delete(entryName) ==
    /\ ops < MaxOps
    /\ LET d == delete(entries, entryName)
       IN  /\ entries' = d.entries
           /\ ret' = Called("delete", entryName, d.status,
                             IF d.status = "ok" THEN <<>> ELSE d.entryName)
    /\ ops' = ops + 1
    /\ UNCHANGED <<disk, n, hdr, wire>>

\* psu.save(): the file is written only when every entry serialized
Save ==
    /\ ops < MaxOps
    /\ LET s == save(entries)
       IN  /\ entries' = s.entries
           /\ disk' = IF s.status = "ok" THEN s.data ELSE disk
           /\ ret' = Called("save", <<>>, s.status, <<>>)
    /\ ops' = ops + 1
    /\ UNCHANGED <<n, hdr, wire>>

\* psu = PSU.load(filepath): the caller gets the parsed archive, or the
\* exception and no archive
Load ==
    /\ ops < MaxOps
    /\ IF disk = NoFile
       THEN /\ ret' = Called("load", <<>>, "FileNotFoundError", <<>>)
            /\ UNCHANGED entries
       ELSE LET r == parse(disk)
            IN  /\ entries' = IF r.status = "ok" THEN r.entries ELSE entries
                /\ ret' = Called("load", <<>>, r.status,
                                  IF r.status = "UnknownEntryType"
                                  THEN <<r.type, r.entryName>> ELSE <<>>)
    /\ ops' = ops + 1
    /\ UNCHANGED <<disk, n, hdr, wire>>

Next ==
    \/ \E entry \in AddInputs : Add(entry)
    \/ \E entryName \in Names, data \in Datas : Write(entryName, data)
    \/ \E entryName \in Names : Read(entryName)
    \/ \E entryName \in Names : Delete(entryName)
    \/ Save
    \/ Load

Spec == Init /\ [][Next]_vars

---------------------------------------------------------------------------
(* Properties of the archive operations, checked under Spec.               *)

\* The least element of a non-empty set of positions
Least(S) == CHOOSE i \in S : \A j \in S : i <= j

\* The positions of the entries named entryName
Named(es, entryName) == {i \in 1..Len(es) : es[i].name = entryName}

\* The bytes a call of write stores for its data argument
Stored(data) == IF data.type = "str" THEN Utf8Encode(data.value) ELSE data.value

\* The length of a payload of k content bytes on the wire: k rounded up to
\* the next multiple of 1024
OnWire(k) == ((k + 1023) \div 1024) * 1024

\* The number of bytes entry e takes in a saved file
WireLen(e) ==
    512 + (IF e.header.type = FILE THEN OnWire(Len(e.content)) ELSE 0)

\* The offset in a saved file of the entry at position i
RECURSIVE WireOffset(_, _)
WireOffset(es, i) ==
    IF i = 1 THEN 0 ELSE WireOffset(es, i - 1) + WireLen(es[i - 1])

\* The size field (bytes 4..7, little-endian) of the record at offset off
WireSize(data, off) ==
    data[off + 5] + 256 * data[off + 6] + 65536 * data[off + 7]
    + 16777216 * data[off + 8]

\* Archive B has the entries of archive A: as many, in the same order, with
\* the same names and types, the same content for files and the same size
\* for directories
SameArchive(A, B) ==
    /\ Len(B) = Len(A)
    /\ \A i \in 1..Len(A) :
          /\ B[i].name = A[i].name
          /\ B[i].header.type = A[i].header.type
          /\ A[i].header.type = FILE => B[i].content = A[i].content
          /\ A[i].header.type = DIRECTORY => B[i].header.size = A[i].header.size

NamesFit(es) == \A i \in 1..Len(es) : Len(Utf8Encode(es[i].name)) <= NAME_SIZE

NoTrailingNul(es) ==
    \A i \in 1..Len(es) : es[i].name = <<>> \/ es[i].name[Len(es[i].name)] # 0

\* C1 as stated: loading the file a save has just written gives back the
\* archive as the save left it (entry count, order, names, types, file
\* contents, directory sizes), for any archive whose names fit 448 bytes.
C1_RoundTripAnyName ==
    [][(/\ ret.op = "save" /\ ret.status = "ok"
        /\ NamesFit(entries)
        /\ ret'.op = "load" /\ Load)
       => (ret'.status = "ok" /\ SameArchive(entries, entries'))]_vars

\* C1 amended: the same round trip, for archives none of whose names ends
\* in a NUL character.
C1_RoundTrip ==
    [][(/\ ret.op = "save" /\ ret.status = "ok"
        /\ NamesFit(entries) /\ NoTrailingNul(entries)
        /\ ret'.op = "load" /\ Load)
       => (ret'.status = "ok" /\ SameArchive(entries, entries'))]_vars

\* A loaded archive of four entries, the last a 10-byte file, read back from
\* the file the call before had saved
C1_Witness ==
    /\ ret.op = "load" /\ ret.after = "save" /\ ret.status = "ok"
    /\ Len(entries) = 4 /\ NoTrailingNul(entries)
    /\ entries[1].header.type = DIRECTORY
    /\ entries[4].header.type = FILE /\ Len(entries[4].content) = 10

\* C2: after a save of an archive of N entries every directory named "." or
\* ".." has size 0 and every other directory has size N - 1, in the entry
\* and in the bytes written.
C2_DirectorySizes ==
    (ret.op = "save" /\ ret.status = "ok") =>
        \A i \in 1..Len(entries) :
            entries[i].header.type = DIRECTORY =>
                LET want == IF entries[i].name \in {Dot, DotDot} THEN 0
                            ELSE Len(entries) - 1
                IN  /\ entries[i].header.size = want
                    /\ WireSize(disk, WireOffset(entries, i)) = want

\* A saved archive with a directory that write() had given another size
C2_Witness ==
    /\ ret.op = "save" /\ ret.status = "ok"
    /\ \E i \in 1..Len(entries) :
          /\ entries[i].header.type = DIRECTORY
          /\ entries[i].content # NoAttr
          /\ Len(entries[i].content) # entries[i].header.size
          /\ entries[i].header.size = Len(entries) - 1

\* C3: write(name, data) replaces content and header.size of the first entry
\* of that name in place and changes nothing else; with no such entry it
\* appends one File entry and keeps the earlier entries.
C3_WriteFrame ==
    [][\A entryName \in Names, data \in Datas :
         (ret'.op = "write" /\ Write(entryName, data)) =>
            IF Named(entries, entryName) # {}
            THEN LET k == Least(Named(entries, entryName))
                 IN  /\ Len(entries') = Len(entries)
                     /\ entries'[k].content = Stored(data)
                     /\ entries'[k].header.size = Len(Stored(data))
                     /\ entries'[k] = [entries[k] EXCEPT
                                          !.content = Stored(data),
                                          !.header.size = Len(Stored(data))]
                     /\ \A j \in 1..Len(entries) : j # k => entries'[j] = entries[j]
                     /\ ret'.value = k
            ELSE /\ Len(entries') = Len(entries) + 1
                 /\ SubSeq(entries', 1, Len(entries)) = entries
                 /\ LET e == entries'[Len(entries')]
                    IN  /\ e.name = entryName
                        /\ e.cls = "File" /\ e.header.type = FILE
                        /\ e.content = Stored(data)
                        /\ e.header.size = Len(Stored(data))
                 /\ ret'.value = Len(entries')]_vars

\* A write that replaced an entry which has a later namesake
C3_Witness ==
    /\ ret.op = "write"
    /\ ret.value < Len(entries)
    /\ \E j \in Named(entries, ret.arg) : j > ret.value
    /\ entries[ret.value].content # NoAttr

\* C6: a save right after a successful save writes the same bytes again and
\* leaves every entry as it was.
C6_SaveIdempotent ==
    [][(ret.op = "save" /\ ret.status = "ok" /\ ret'.op = "save" /\ Save)
       => (disk' = disk /\ entries' = entries /\ ret'.status = "ok")]_vars

\* Two saves in a row of an archive with a directory and a non-empty file
C6_Witness ==
    /\ ret.op = "save" /\ ret.after = "save" /\ ret.status = "ok"
    /\ \E i \in 1..Len(entries) :
          entries[i].header.type = DIRECTORY /\ entries[i].header.size > 0
    /\ \E i \in 1..Len(entries) :
          entries[i].header.type = FILE /\ Len(entries[i].content) > 0

\* C7: read(name) returns the content of the first entry of that name and
\* type FILE; with no such entry (none of the name, or directories only) it
\* raises EntryNotFound(name); it never changes the archive.
C7_Read ==
    [][\A entryName \in Names :
         (ret'.op = "read" /\ Read(entryName)) =>
            LET files == {i \in Named(entries, entryName) :
                             entries[i].header.type = FILE}
            IN  /\ entries' = entries
                /\ IF files = {}
                   THEN ret'.status = "EntryNotFound" /\ ret'.value = entryName
                   ELSE /\ ret'.status = "ok"
                        /\ ret'.value = entries[Least(files)].content]_vars

\* A read that failed on a name only directories have
C7_Witness ==
    /\ ret.op = "read" /\ ret.status = "EntryNotFound"
    /\ Named(entries, ret.arg) # {}
    /\ \A i \in Named(entries, ret.arg) : entries[i].header.type = DIRECTORY

\* C8: delete(name) removes the first entry of that name, whatever its type,
\* and keeps the others in order; with no such entry it raises
\* EntryNotFound(name) and the entries stay.
C8_Delete ==
    [][\A entryName \in Names :
         (ret'.op = "delete" /\ Delete(entryName)) =>
            IF Named(entries, entryName) = {}
            THEN /\ entries' = entries
                 /\ ret'.status = "EntryNotFound" /\ ret'.value = entryName
            ELSE LET k == Least(Named(entries, entryName))
                 IN  /\ ret'.status = "ok"
                     /\ Len(entries') = Len(entries) - 1
                     /\ \A j \in 1..(k - 1) : entries'[j] = entries[j]
                     /\ \A j \in k..Len(entries') : entries'[j] = entries[j + 1]]_vars

\* A delete that left a later namesake of the entry it removed
C8_Witness ==
    /\ ret.op = "delete" /\ ret.status = "ok"
    /\ Named(entries, ret.arg) # {}
    /\ Len(entries) >= 3

\* The file create("mygame"), write("icon.sys", ten zero bytes), save() writes
EndToEndFile ==
    save(write(create(MyGame), IconSys,
               [type |-> "bytes", value |-> Zeros(10)]).entries).data

\* C9: create("mygame") gives the directories "mygame", ".", ".." of size 0;
\* after write("icon.sys", ten zero bytes) and save, loading the file gives 4
\* entries (the three directories and the file), the file's content is the
\* ten zero bytes, and its payload in the file is 1024 bytes.
C9_EndToEnd ==
    /\ (ret.op = "create" /\ ret.arg = MyGame) =>
          /\ Len(entries) = 3
          /\ <<entries[1].name, entries[2].name, entries[3].name>>
                = <<MyGame, Dot, DotDot>>
          /\ \A i \in 1..3 :
                entries[i].header.type = DIRECTORY /\ entries[i].header.size = 0
    /\ (ret.op = "load" /\ disk = EndToEndFile) =>
          /\ ret.status = "ok"
          /\ Len(entries) = 4
          /\ <<entries[1].name, entries[2].name, entries[3].name, entries[4].name>>
                = <<MyGame, Dot, DotDot, IconSys>>
          /\ \A i \in 1..3 : entries[i].header.type = DIRECTORY
          /\ entries[4].header.type = FILE
          /\ entries[4].content = Zeros(10)
          /\ Len(disk) = 4 * 512 + 1024
          /\ SubSeq(disk, 4 * 512 + 1, Len(disk)) = Zeros(10) \o Zeros(1014)

\* The archive loaded from that file, three calls after create("mygame")
C9_Witness ==
    /\ ret.op = "load" /\ ret.after = "save" /\ ops = 3
    /\ disk = EndToEndFile
    /\ Len(entries) = 4 /\ entries[4].content = Zeros(10)

\* C13: in any archive reached by create, add, write and delete, a
\* directory and a file of one name included, right after write(name, data)
\* returns, read(name) succeeds and returns data (the UTF-8 bytes of data
\* when data is a str).
C13_WriteThenRead ==
    [][\A entryName \in Names :
         /\ \A data \in Datas :
               (ret'.op = "write" /\ Write(entryName, data)) =>
                  read(entries', entryName)
                     = [status |-> "ok", value |-> Stored(data)]
         /\ (/\ ret.op = "write" /\ ret.arg = entryName
             /\ ret'.op = "read" /\ Read(entryName)) =>
                  /\ ret'.status = "ok"
                  /\ ret'.value = entries[ret.value].content]_vars

\* A read that followed a write of ten zero bytes and returned them
C13_Witness ==
    /\ ret.op = "read" /\ ret.after = "write" /\ ret.status = "ok"
    /\ ret.arg = IconSys /\ ret.value = Zeros(10)

---------------------------------------------------------------------------
(* The codecs on their own: Header and Entry applied to given inputs.      *)

MaxLen == 2049      \* the longest file content the codec is given

\* A file content of k bytes, none of them zero
Content(k) == [i \in 1..k |-> 1 + (i % 250)]

LeapDate == DateTime(2024, 2, 29, 23, 59, 58, 0)

\* Headers given to the codec: each type (and one that is no type), sizes,
\* timestamps with and without a sub-second part, the other fields at their
\* defaults, at distinct values and at the largest the model represents
Headers ==
    {Header(t, sz, d[1], d[2], u[1], u[2], u[3], u[4]) :
        t \in {DIRECTORY, FILE, 1},
        sz \in {0, 2147483647},
        d \in {<<Now, Now>>, <<ForeignDate, LeapDate>>},
        u \in {<<0, 0, 0, 0>>, <<1, 2, 3, 4>>,
               <<65535, 65535, 65535, 2147483647>>}}

\* Entry records given to the decoder
EntryBuffers ==
    {ForeignEntry(DIRECTORY, 7, ForeignDate, ForeignPad, MyGame, <<>>),
     ForeignEntry(FILE, 2, LeapDate, ForeignPad, IconSys, <<1, 0>> \o Zeros(1022)),
     ForeignEntry(FILE, 0, LeapDate, Zeros(PADDING_SIZE), <<195, 169>>, <<>>)}

\* Names given to Directory(name): a short one, one that fills the name
\* field, one that is a byte too long, and one of 225 two-byte characters
\* (fewer than 448 characters, 450 bytes)
Fill(c, k) == [i \in 1..k |-> c]
DirectoryNames ==
    {MyGame, Fill(97, NAME_SIZE), Fill(97, NAME_SIZE + 1),
     Fill(233, (NAME_SIZE \div 2) + 1)}

\* A content length, a header, a buffer or a directory name to work on
CodecInit ==
    /\ disk = NoFile /\ ops = 0
    /\ \/ /\ n \in 0..MaxLen
          /\ hdr = NewHeader(FILE, n) /\ wire = <<>>
          /\ entries = <<File(IconSys, Content(n))>>
          /\ ret = Constructed("File", <<>>)
       \/ /\ hdr \in Headers
          /\ n = 0 /\ wire = <<>> /\ entries = <<>>
          /\ ret = Constructed("Header", <<>>)
       \/ /\ wire \in EntryBuffers
          /\ n = 0 /\ hdr = NewHeader(FILE, 0) /\ entries = <<>>
          /\ ret = Constructed("buffer", <<>>)
       \/ /\ \E name \in DirectoryNames : entries = <<Directory(name, 0)>>
          /\ n = 0 /\ hdr = NewHeader(DIRECTORY, 0) /\ wire = <<>>
          /\ ret = Constructed("Directory", <<>>)

\* wire = hdr.serialize()
HeaderEncode ==
    /\ ret.op = "Header"
    /\ LET h == HeaderSerialize(hdr)
       IN  /\ wire' = h.data
           /\ ret' = Called("Header.serialize", <<>>, h.status, <<>>)
    /\ UNCHANGED <<entries, disk, ops, n, hdr>>

\* hdr = Header.deserialize(wire)
HeaderDecode ==
    /\ ret.op = "Header.serialize" /\ ret.status = "ok"
    /\ LET h == HeaderDeserialize(wire)
       IN  /\ hdr' = IF h.status = "ok" THEN h.header ELSE hdr
           /\ ret' = Called("Header.deserialize", <<>>, h.status, <<>>)
    /\ UNCHANGED <<entries, disk, ops, n, wire>>

\* wire = entry.serialize() for the one entry held
EntryEncode ==
    /\ \/ ret.op \in {"File", "Directory"}
       \/ ret.op = "Entry.deserialize" /\ ret.after = "buffer" /\ ret.status = "ok"
    /\ LET s == Serialize(entries[1])
       IN  /\ wire' = s.data
           /\ entries' = <<s.entry>>
           /\ ret' = Called("serialize", <<>>, s.status, <<>>)
    /\ UNCHANGED <<disk, ops, n, hdr>>

\* entry, size = Entry.deserialize(wire); value is the size returned
EntryDecode ==
    /\ \/ ret.op = "buffer"
       \/ /\ ret.op = "serialize" /\ ret.status = "ok"
          /\ ret.after \in {"File", "Directory"}
    /\ LET r == EntryDeserialize(wire)
       IN  /\ entries' = IF r.status = "ok" THEN <<r.entry>> ELSE entries
           /\ ret' = Called("Entry.deserialize", <<>>, r.status,
                            IF r.status = "ok" THEN <<r.size>> ELSE <<>>)
    /\ UNCHANGED <<disk, ops, n, hdr, wire>>

CodecNext ==
    \/ HeaderEncode
    \/ HeaderDecode
    \/ EntryEncode
    \/ EntryDecode

SpecCodec == CodecInit /\ [][CodecNext]_vars

---------------------------------------------------------------------------
(* Properties of the codecs, checked under SpecCodec.                      *)

\* The pads the specification lists, by content length
PadTable == [k \in {0, 1, 1023, 1024, 1025, 2048} |->
                CASE k = 0 -> 0 [] k = 1 -> 1023 [] k = 1023 -> 1
                  [] k = 1024 -> 0 [] k = 1025 -> 1023 [] k = 2048 -> 0]

\* C4: for every content length n the pad is (1024 - n mod 1024) mod 1024: it
\* lies in 0..1023, makes n + pad a multiple of 1024, is 0 for a multiple of
\* 1024, takes the listed values, and File.serialize writes the 512-byte
\* record, the content and exactly that many zero bytes.
C4_Padding ==
    LET pad == getContentPaddingSize(n)
    IN  /\ pad = (1024 - (n % 1024)) % 1024
        /\ pad \in 0..1023
        /\ (n + pad) % 1024 = 0
        /\ (n % 1024 = 0 => pad = 0)
        /\ (n \in DOMAIN PadTable => pad = PadTable[n])
        /\ (ret.op = "serialize" /\ ret.after = "File") =>
              /\ ret.status = "ok"
              /\ Len(wire) = 512 + n + pad
              /\ SubSeq(wire, 513, 512 + n) = Content(n)
              /\ \A i \in (512 + n + 1)..Len(wire) : wire[i] = 0

\* A serialized file of 2048 bytes, an exact multiple of the page size
C4_Witness ==
    /\ ret.op = "serialize" /\ ret.after = "File"
    /\ n = 2048 /\ Len(wire) = 512 + 2048

\* What Header.serialize must have written for header h: every field at its
\* offset of the documented layout, little-endian, 32 bytes in all, with a
\* zero byte where each timestamp starts (offsets 8 and 24)
Layout(w, h) ==
    /\ Len(w) = 32
    /\ w[9] = 0 /\ w[25] = 0
    /\ w[1] + 256 * w[2] = h.type
    /\ w[3] + 256 * w[4] = h.unk1
    /\ WireSize(w, 0) = h.size
    /\ <<w[10], w[11], w[12], w[13], w[14], w[15] + 256 * w[16]>>
          = <<h.created.second, h.created.minute, h.created.hour,
              h.created.day, h.created.month, h.created.year>>
    /\ w[17] + 256 * w[18] = h.sectorAddress
    /\ w[19] + 256 * w[20] = h.unk2
    /\ w[21] + 256 * w[22] + 65536 * w[23] + 16777216 * w[24] = h.unk3
    /\ <<w[26], w[27], w[28], w[29], w[30], w[31] + 256 * w[32]>>
          = <<h.modified.second, h.modified.minute, h.modified.hour,
              h.modified.day, h.modified.month, h.modified.year>>

\* A datetime cut to whole seconds
Seconds(t) == [t EXCEPT !.microsecond = 0]

\* C10 as stated: Header.serialize writes 32 bytes with a zero byte at
\* offsets 8 and 24 and every field at its place; Header.deserialize of
\* these bytes gives a header equal to the original in every field, the
\* created and modified timestamps included; an entry's padding block
\* comes out of decode then encode as it went in.
C10_HeaderRoundTripExact ==
    [][/\ (ret'.op = "Header.serialize" /\ HeaderEncode)
             => (ret'.status = "ok" /\ Layout(wire', hdr))
       /\ (ret.op = "Header.serialize" /\ ret'.op = "Header.deserialize"
             /\ HeaderDecode)
             => (ret'.status = "ok" /\ hdr' = hdr)
       /\ (ret.op = "Entry.deserialize" /\ ret'.op = "serialize" /\ EntryEncode)
             => (/\ ret'.status = "ok"
                 /\ entries[1].padding = SubSeq(wire, 33, 64)
                 /\ SubSeq(wire', 33, 64) = SubSeq(wire, 33, 64))]_vars

\* C10 amended: the same, with the timestamps read back equal to the
\* original ones cut to whole seconds.
C10_HeaderRoundTrip ==
    [][/\ (ret'.op = "Header.serialize" /\ HeaderEncode)
             => (ret'.status = "ok" /\ Layout(wire', hdr))
       /\ (ret.op = "Header.serialize" /\ ret'.op = "Header.deserialize"
             /\ HeaderDecode)
             => (/\ ret'.status = "ok"
                 /\ hdr' = [hdr EXCEPT !.created = Seconds(hdr.created),
                                       !.modified = Seconds(hdr.modified)])
       /\ (ret.op = "Entry.deserialize" /\ ret'.op = "serialize" /\ EntryEncode)
             => (/\ ret'.status = "ok"
                 /\ entries[1].padding = SubSeq(wire, 33, 64)
                 /\ SubSeq(wire', 33, 64) = SubSeq(wire, 33, 64))]_vars

\* A header read back from its own bytes, its fields pairwise distinct
C10_Witness ==
    /\ ret.op = "Header.deserialize" /\ ret.after = "Header.serialize"
    /\ ret.status = "ok"
    /\ <<hdr.sectorAddress, hdr.unk1, hdr.unk2, hdr.unk3>> = <<1, 2, 3, 4>>
    /\ hdr.created = ForeignDate /\ hdr.modified = LeapDate
    /\ hdr.size = 2147483647

\* The offsets parse passes through on data, entry by entry: each at least
\* 512 past the one before, the last one the length of data
Advances(offsets, data) ==
    /\ offsets[1] = 0
    /\ \A i \in 1..(Len(offsets) - 1) : offsets[i + 1] >= offsets[i] + 512
    /\ offsets[Len(offsets)] = Len(data)

\* An archive around entry e: a directory, e, a file, and e again
Around(e) == <<Directory(MyGame, 0), e, File(MyGame, <<7, 0>>), e>>

C12_NameTooLong ==
    [][(ret'.op = "serialize" /\ EntryEncode) =>
          LET e == entries'[1]
              name == Utf8Encode(e.name)
          IN  /\ Len(name) > NAME_SIZE =>
                    ret'.status = "NameTooLong" /\ wire' = <<>>
              /\ ret'.status = "ok" =>
                    /\ Len(wire') = WireLen(e)
                    /\ SubSeq(wire', 33, 64) = e.padding
                    /\ SubSeq(wire', 65, 512)
                          = name \o Zeros(NAME_SIZE - Len(name))
                    /\ e.header.type = FILE =>
                          SubSeq(wire', 513, 512 + Len(e.content)) = e.content]_vars

\* A directory with a name of 449 bytes, serialized into 513 bytes
C12_Witness ==
    /\ ret.op = "serialize" /\ ret.after = "Directory" /\ ret.status = "ok"
    /\ Len(Utf8Encode(entries[1].name)) = NAME_SIZE + 1
    /\ Len(wire) = 513

---------------------------------------------------------------------------
(* Loading files that another program wrote or damaged.                    *)

\* Offsets (from 1) of the low byte of the type and of the month of the
\* created timestamp, in the records that start at 0, 512 and 1024
CorruptOffsets == {512 * k + f : k \in 0..2, f \in {1, 14}}

\* Values written there: 0x00, 0x01 and 0x97
CorruptBytes == {0, 1, 151}

\* A file written elsewhere, or the one a save of this program wrote
LoadInit ==
    /\ entries = <<>>
    /\ disk \in {ForeignFile, EndToEndFile}
    /\ ret = Constructed("PSU", <<>>)
    /\ ops = 0
    /\ CodecIdle

\* Another program overwrites one byte of the file
Corrupt(pos, b) ==
    /\ ops < MaxCorrupt /\ ret.op # "load"
    /\ pos <= Len(disk) /\ disk[pos] # b
    /\ disk' = [disk EXCEPT ![pos] = b]
    /\ ops' = ops + 1
    /\ UNCHANGED <<entries, ret, n, hdr, wire>>

LoadNext ==
    \/ \E pos \in CorruptOffsets, b \in CorruptBytes : Corrupt(pos, b)
    \/ ret.op # "load" /\ Load

SpecLoad == LoadInit /\ [][LoadNext]_vars

\* The type field of the record at offset off
WireType(data, off) == data[off + 1] + 256 * data[off + 2]

\* C5: when the file holds a record of a type that is neither DIRECTORY nor
\* FILE, after any number of whole valid entries, load raises
\* UnknownEntryType with that type and the record's name, and the caller
\* gets no archive.
C5_UnknownTypeRejected ==
    ret.op = "load" =>
        \A k \in 0..((Len(disk) \div 512) - 1) :
            LET off == 512 * k
                before == parse(Slice(disk, 0, off))
            IN  (/\ before.status = "ok" /\ before.offset = off
                 /\ WireType(disk, off) \notin {DIRECTORY, FILE})
                => /\ ret.status = "UnknownEntryType"
                   /\ ret.value = <<WireType(disk, off),
                                    getName(Slice(disk, off + 64, off + 512)).value>>
                   /\ entries = <<>>

\* A load that met a record of unknown type 0x8400 where the root
\* directory was and raised UnknownEntryType with that type and its name
C5_Witness ==
    /\ ret.op = "load" /\ ret.status = "UnknownEntryType"
    /\ ret.value = <<33792, MyGame>>
    /\ entries = <<>>

============================================================================
